---- MODULE Spec2Model ----
(***************************************************************************)
(* Model of src/sliceview/jxl/src/lib.rs: the exported operations malloc,  *)
(* free, width, height, frames, decode and decode_with_bpp, the heap they  *)
(* allocate from, and the host that calls them.                            *)
(*                                                                         *)
(* A pointer is a number in 1..MaxPtr; 0 is the null pointer.  A sample of *)
(* the rendered raster is an f32; the model writes the f32 value k/256 as  *)
(* the integer k (every such value with |k| < 2^10 is an exact f32, and    *)
(* the products k*255 and, for 0 <= k <= 256, k*65535 are exact f32s too). *)
(* The codestream bytes the host copied into its input buffer are written  *)
(* as what JxlImage::builder().read and render_frame make of them: whether *)
(* they parse, the pixel format, and per keyframe whether it renders, its  *)
(* width, height and raster.                                               *)
(***************************************************************************)
EXTENDS Integers, Sequences, FiniteSets, TLC

VARIABLES alloc, host, last, fault

vars == <<alloc, host, last, fault>>

\* ------------------------------------------------------------------ bounds
MaxPtr == 2
MaxSize == 1
MaxOut == 2

Ptrs == 1..MaxPtr

\* ------------------------------------------------- the decoding collaborator
Fr(ok, w, h, buf) == [ok |-> ok, w |-> w, h |-> h, buf |-> buf]

Img(parse, fmt, keyframes) == [parse |-> parse, fmt |-> fmt, keyframes |-> keyframes]

\* JxlImage::builder().read(data): Ok(image) or Err
read_ok(data) == data.parse

num_loaded_keyframes(image) == Len(image.keyframes)

\* image.render_frame(keyframe_idx), keyframe_idx counted from 0
render_frame(image, keyframe_idx) == image.keyframes[keyframe_idx + 1]

\* fb.buf() after FrameBuffer::new(width, height, channels) and
\* stream.write_to_buffer(fb.buf_mut()): width*height*channels samples
fb_buf(frame) == frame.buf

\* ---------------------------------------------------------- sample encoding
Clamp(v, lo, hi) == IF v < lo THEN lo ELSE IF v > hi THEN hi ELSE v

\* (pixel * 255.0).clamp(0.0, 255.0) as u8: the cast truncates toward zero
encode_u8(pixel) == Clamp(pixel * 255, 0, 255 * 256) \div 256

\* (pixel * 65535.0).clamp(0.0, 65535.0).round() as u16: round half away from 0
encode_u16(pixel) == (2 * Clamp(pixel * 65535, 0, 65535 * 256) + 256) \div 512

\* v.to_le_bytes() of a u16
u16_le_bytes(v) == <<v % 256, v \div 256>>

RECURSIVE FloorLog2(_)
FloorLog2(a) == IF a < 2 THEN 0 ELSE 1 + FloorLog2(a \div 2)

\* f.to_le_bytes() of the f32 pixel/256: sign, biased exponent, 23-bit mantissa
f32_le_bytes(pixel) ==
    IF pixel = 0 THEN <<0, 0, 0, 0>>
    ELSE LET a    == IF pixel < 0 THEN -pixel ELSE pixel
             sign == IF pixel < 0 THEN 1 ELSE 0
             fl   == FloorLog2(a)
             bexp == fl - 8 + 127
             mant == (a - 2^fl) * 2^(23 - fl)
         IN  <<mant % 256, (mant \div 256) % 256,
               (bexp % 2) * 128 + mant \div 65536, sign * 128 + bexp \div 2>>

\* the inner match bytes_per_sample of decode_with_bpp; decode is the arm 1
sample_bytes(pixel, bytes_per_sample) ==
    CASE bytes_per_sample = 1 -> <<encode_u8(pixel)>>
      [] bytes_per_sample = 2 -> u16_le_bytes(encode_u16(pixel))
      [] bytes_per_sample = 4 -> f32_le_bytes(pixel)

\* alpha_bytes with the source alpha passed through (what C4_AlphaOpaque rules out)
alpha_pass(px, bytes_per_sample) == sample_bytes(px[4], bytes_per_sample)

\* the alpha written for an Rgba pixel: 255, 0xFFFF, 1.0f32
alpha_bytes(px, bytes_per_sample) ==
    CASE bytes_per_sample = 1 -> <<255>>
      [] bytes_per_sample = 2 -> u16_le_bytes(65535)
      [] bytes_per_sample = 4 -> f32_le_bytes(256)

\* --------------------------------------------------------- the output Vec<u8>
Max(a, b) == IF a > b THEN a ELSE b

\* Vec::with_capacity(output_size)
with_capacity(output_size) == [buf |-> <<>>, cap |-> output_size]

\* output_buffer.push / extend_from_slice: the buffer is regrown (amortized
\* doubling, at least 8 bytes) when the bytes do not fit its capacity
extend(vec, bytes) ==
    LET need == Len(vec.buf) + Len(bytes)
    IN  [buf |-> vec.buf \o bytes,
         cap |-> IF need <= vec.cap THEN vec.cap
                 ELSE Max(Max(2 * vec.cap, need), 8)]

\* for pixel in fb.buf() { push the sample }  (Gray and Rgb)
RECURSIVE encode_plain(_, _, _, _)
encode_plain(vec, buf, i, bytes_per_sample) ==
    IF i > Len(buf) THEN vec
    ELSE encode_plain(extend(vec, sample_bytes(buf[i], bytes_per_sample)),
                      buf, i + 1, bytes_per_sample)

\* one chunk of chunks_exact(4): the samples 0..2, then the alpha
encode_px(vec, px, bytes_per_sample) ==
    LET v1 == extend(vec, sample_bytes(px[1], bytes_per_sample))
        v2 == extend(v1, sample_bytes(px[2], bytes_per_sample))
        v3 == extend(v2, sample_bytes(px[3], bytes_per_sample))
    IN  extend(v3, alpha_bytes(px, bytes_per_sample))

\* for px in fb.buf().chunks_exact(4) { ... }  (Rgba); a remainder is skipped
RECURSIVE encode_rgba(_, _, _, _)
encode_rgba(vec, buf, i, bytes_per_sample) ==
    IF i + 3 > Len(buf) THEN vec
    ELSE encode_rgba(encode_px(vec, SubSeq(buf, i, i + 3), bytes_per_sample),
                     buf, i + 4, bytes_per_sample)

\* Rgb written as Rgba: after every 3 samples an opaque alpha
RECURSIVE encode_rgb_alpha(_, _, _, _)
encode_rgb_alpha(vec, buf, i, bytes_per_sample) ==
    IF i + 2 > Len(buf) THEN vec
    ELSE encode_rgb_alpha(
             encode_px(vec, SubSeq(buf, i, i + 2) \o <<256>>, bytes_per_sample),
             buf, i + 3, bytes_per_sample)

\* encode_frame with an alpha synthesized for Rgb (what C3_RgbThreeSamples rules out)
encode_frame_alpha(vec, fmt, buf, bytes_per_sample) ==
    CASE fmt = "Gray" -> [ok |-> TRUE, vec |-> encode_plain(vec, buf, 1, bytes_per_sample)]
      [] fmt = "Rgb"  -> [ok |-> TRUE, vec |-> encode_rgb_alpha(vec, buf, 1, bytes_per_sample)]
      [] fmt = "Rgba" -> [ok |-> TRUE, vec |-> encode_rgba(vec, buf, 1, bytes_per_sample)]
      [] OTHER        -> [ok |-> FALSE, vec |-> vec]

\* match image.pixel_format(): the buffer after the frame, or "null" for `_`
encode_frame(vec, fmt, buf, bytes_per_sample) ==
    CASE fmt = "Gray" -> [ok |-> TRUE, vec |-> encode_plain(vec, buf, 1, bytes_per_sample)]
      [] fmt = "Rgb"  -> [ok |-> TRUE, vec |-> encode_plain(vec, buf, 1, bytes_per_sample)]
      [] fmt = "Rgba" -> [ok |-> TRUE, vec |-> encode_rgba(vec, buf, 1, bytes_per_sample)]
      [] OTHER        -> [ok |-> FALSE, vec |-> vec]

\* what render_frame failing does to the keyframe loop of decode: return null
on_render_error(vec) == [ok |-> FALSE, vec |-> vec]

\* for keyframe_idx in 0..image.num_loaded_keyframes() of decode and
\* decode_with_bpp, from keyframe_idx on: ok = FALSE is an early return of null
RECURSIVE decode_loop(_, _, _, _)
decode_loop(image, keyframe_idx, vec, bytes_per_sample) ==
    IF keyframe_idx >= num_loaded_keyframes(image) THEN [ok |-> TRUE, vec |-> vec]
    ELSE LET frame == render_frame(image, keyframe_idx)
         IN  IF ~frame.ok THEN on_render_error(vec)
             ELSE LET e == encode_frame(vec, image.fmt, fb_buf(frame), bytes_per_sample)
                  IN  IF ~e.ok THEN e
                      ELSE decode_loop(image, keyframe_idx + 1, e.vec, bytes_per_sample)

\* ---------------------------------------------------------- argument checks
\* invalid_args without the output_size check (what C7_SentinelCodes rules out)
invalid_args_no_output(ptr, input_size, output_size) == ptr = 0 \/ input_size = 0

\* ptr.is_null() || input_size == 0 || output_size == 0
invalid_args(ptr, input_size, output_size) ==
    ptr = 0 \/ input_size = 0 \/ output_size = 0

\* bytes_per_sample != 1 && bytes_per_sample != 2 && bytes_per_sample != 4
invalid_bpp(bytes_per_sample) ==
    bytes_per_sample # 1 /\ bytes_per_sample # 2 /\ bytes_per_sample # 4

\* ------------------------------------------------------- width, height, frames
\* geometry_loop that goes on to the next keyframe when one fails to render
\* (what C8_FirstKeyframeOnly rules out)
RECURSIVE geometry_skip(_, _, _)
geometry_skip(image, keyframe_idx, dim) ==
    IF keyframe_idx >= num_loaded_keyframes(image)
    THEN [ret |-> -4, rendered |-> keyframe_idx]
    ELSE LET frame == render_frame(image, keyframe_idx)
         IN  IF ~frame.ok THEN geometry_skip(image, keyframe_idx + 1, dim)
             ELSE [ret |-> IF dim = "w" THEN frame.w ELSE frame.h,
                   rendered |-> keyframe_idx + 1]

\* the keyframe loop of width (dim = "w") and height (dim = "h") and the -4
\* after it; rendered counts the render_frame calls made
geometry_loop(image, keyframe_idx, dim) ==
    IF keyframe_idx >= num_loaded_keyframes(image)
    THEN [ret |-> -4, rendered |-> keyframe_idx]
    ELSE LET frame == render_frame(image, keyframe_idx)
         IN  IF ~frame.ok THEN [ret |-> -3, rendered |-> keyframe_idx + 1]
             ELSE [ret |-> IF dim = "w" THEN frame.w ELSE frame.h,
                   rendered |-> keyframe_idx + 1]

\* width and height as functions of their arguments and the bytes at ptr
geometry(ptr, input_size, output_size, data, dim) ==
    IF invalid_args(ptr, input_size, output_size) THEN [ret |-> -1, rendered |-> 0]
    ELSE IF ~read_ok(data) THEN [ret |-> -2, rendered |-> 0]
    ELSE geometry_loop(data, 0, dim)

\* frames_loop that stops counting at a keyframe that fails to render and
\* returns the count so far (what C2_AllOrNothing rules out)
RECURSIVE frames_loop_partial(_, _, _)
frames_loop_partial(image, keyframe_idx, count) ==
    IF keyframe_idx >= num_loaded_keyframes(image)
    THEN [ret |-> IF count = 0 THEN -4 ELSE count, rendered |-> keyframe_idx]
    ELSE IF ~render_frame(image, keyframe_idx).ok
         THEN [ret |-> IF count = 0 THEN -3 ELSE count, rendered |-> keyframe_idx + 1]
         ELSE frames_loop_partial(image, keyframe_idx + 1, count + 1)

\* the keyframe loop of frames, from keyframe_idx on with count frames counted,
\* and the final `if count == 0 { -4 } else { count }`
RECURSIVE frames_loop(_, _, _)
frames_loop(image, keyframe_idx, count) ==
    IF keyframe_idx >= num_loaded_keyframes(image)
    THEN [ret |-> IF count = 0 THEN -4 ELSE count, rendered |-> keyframe_idx]
    ELSE IF ~render_frame(image, keyframe_idx).ok
         THEN [ret |-> -3, rendered |-> keyframe_idx + 1]
         ELSE frames_loop(image, keyframe_idx + 1, count + 1)

frames_count(ptr, input_size, output_size, data) ==
    IF invalid_args(ptr, input_size, output_size) THEN [ret |-> -1, rendered |-> 0]
    ELSE IF ~read_ok(data) THEN [ret |-> -2, rendered |-> 0]
    ELSE frames_loop(data, 0, 0)

\* ------------------------------------------------- decode, decode_with_bpp
\* The result of building the output: null = a null pointer is returned,
\* kept = the Vec's allocation outlives the call (std::mem::forget), vec = it.
Dropped(vec) == [null |-> TRUE, kept |-> FALSE, vec |-> vec]

\* decode after its loop: as_ptr, mem::forget, return the pointer
finish_decode(vec, output_size) == [null |-> FALSE, kept |-> TRUE, vec |-> vec]

\* finish_with_bpp with the buffer forgotten before the length check, so that
\* a mismatch returns null and leaks it (what C9_Ownership rules out)
finish_with_bpp_leak(vec, output_size) ==
    IF Len(vec.buf) # output_size THEN [null |-> TRUE, kept |-> TRUE, vec |-> vec]
    ELSE [null |-> FALSE, kept |-> TRUE, vec |-> vec]

\* decode_with_bpp after its loop: the length check, then as for decode
finish_with_bpp(vec, output_size) ==
    IF Len(vec.buf) # output_size THEN Dropped(vec)
    ELSE [null |-> FALSE, kept |-> TRUE, vec |-> vec]

\* decode from Vec::with_capacity on (the arguments are valid, the input parsed)
build_decode(image, output_size) ==
    LET r == decode_loop(image, 0, with_capacity(output_size), 1)
    IN  IF ~r.ok THEN Dropped(r.vec) ELSE finish_decode(r.vec, output_size)

\* decode_with_bpp from Vec::with_capacity on
build_with_bpp(image, output_size, bytes_per_sample) ==
    LET r == decode_loop(image, 0, with_capacity(output_size), bytes_per_sample)
    IN  IF ~r.ok THEN Dropped(r.vec) ELSE finish_with_bpp(r.vec, output_size)

\* ----------------------------------------------------------------- the heap
\* alloc[p] is the size of the live allocation at p, 0 when there is none;
\* host[p] is what the host holds at p and the size it was told
NoBuf == [kind |-> "none", size |-> 0]

HeapFull == \A p \in Ptrs : alloc[p] # 0

\* the address the allocator hands out
FreshPtr == CHOOSE p \in Ptrs : alloc[p] = 0 /\ \A q \in Ptrs : q < p => alloc[q] # 0

\* allocation failure: panic!("Memory allocation failed") / handle_alloc_error
Abort(op) ==
    /\ fault' = "abort"
    /\ last' = [op |-> op, aborted |-> TRUE]
    /\ UNCHANGED <<alloc, host>>

TypeOK ==
    /\ alloc \in [Ptrs -> Nat]
    /\ \A p \in Ptrs : host[p].kind \in {"none", "input", "output"}
    /\ fault \in {"none", "abort", "ub"}

Init ==
    /\ alloc = [p \in Ptrs |-> 0]
    /\ host = [p \in Ptrs |-> NoBuf]
    /\ last = [op |-> "none", aborted |-> FALSE]
    /\ fault = "none"

malloc(size) ==
    /\ fault = "none"
    /\ IF HeapFull THEN Abort("malloc")
       ELSE /\ alloc' = [alloc EXCEPT ![FreshPtr] = size]
            /\ host' = [host EXCEPT ![FreshPtr] = [kind |-> "input", size |-> size]]
            /\ last' = [op |-> "malloc", aborted |-> FALSE, size |-> size, ret |-> FreshPtr]
            /\ UNCHANGED fault

\* dealloc(ptr, layout) requires the layout the block was allocated with;
\* with any other it is undefined: the block may or may not be released
free(ptr, size) ==
    /\ fault = "none"
    /\ last' = [op |-> "free", aborted |-> FALSE, ptr |-> ptr, size |-> size]
    /\ host' = [host EXCEPT ![ptr] = NoBuf]
    /\ IF alloc[ptr] = size
       THEN /\ alloc' = [alloc EXCEPT ![ptr] = 0]
            /\ UNCHANGED fault
       ELSE /\ fault' = "ub"
            /\ alloc' \in {alloc, [alloc EXCEPT ![ptr] = 0]}

\* a call that allocates nothing that outlives it
Query(op, ptr, input_size, output_size, data, r) ==
    /\ last' = [op |-> op, aborted |-> FALSE, ptr |-> ptr, input_size |-> input_size,
                output_size |-> output_size, data |-> data,
                ret |-> r.ret, rendered |-> r.rendered]
    /\ UNCHANGED <<alloc, host, fault>>

width(ptr, input_size, output_size, data) ==
    /\ fault = "none"
    /\ Query("width", ptr, input_size, output_size, data,
             geometry(ptr, input_size, output_size, data, "w"))

height(ptr, input_size, output_size, data) ==
    /\ fault = "none"
    /\ Query("height", ptr, input_size, output_size, data,
             geometry(ptr, input_size, output_size, data, "h"))

frames(ptr, input_size, output_size, data) ==
    /\ fault = "none"
    /\ Query("frames", ptr, input_size, output_size, data,
             frames_count(ptr, input_size, output_size, data))

\* the return of decode / decode_with_bpp with the output built as b
Return(op, ptr, input_size, output_size, bytes_per_sample, data, b) ==
    LET p == IF b.kept THEN FreshPtr ELSE 0
        call == [op |-> op, aborted |-> FALSE, ptr |-> ptr, input_size |-> input_size,
                 output_size |-> output_size, bytes_per_sample |-> bytes_per_sample,
                 data |-> data]
    IN  /\ alloc' = IF b.kept THEN [alloc EXCEPT ![p] = b.vec.cap] ELSE alloc
        /\ host' = IF b.null THEN host
                   ELSE [host EXCEPT ![p] = [kind |-> "output", size |-> output_size]]
        /\ last' = IF b.null THEN call @@ [ret |-> 0, out |-> <<>>, cap |-> 0]
                   ELSE call @@ [ret |-> p, out |-> b.vec.buf, cap |-> b.vec.cap]
        /\ UNCHANGED fault

decode(ptr, input_size, output_size, data) ==
    /\ fault = "none"
    /\ IF invalid_args(ptr, input_size, output_size) \/ ~read_ok(data)
       THEN Return("decode", ptr, input_size, output_size, 1, data, Dropped(<<>>))
       ELSE IF HeapFull THEN Abort("decode")
       ELSE Return("decode", ptr, input_size, output_size, 1, data,
                   build_decode(data, output_size))

decode_with_bpp(ptr, input_size, output_size, bytes_per_sample, data) ==
    /\ fault = "none"
    /\ IF \/ invalid_args(ptr, input_size, output_size)
          \/ invalid_bpp(bytes_per_sample)
          \/ ~read_ok(data)
       THEN Return("decode_with_bpp", ptr, input_size, output_size, bytes_per_sample,
                   data, Dropped(<<>>))
       ELSE IF HeapFull THEN Abort("decode_with_bpp")
       ELSE Return("decode_with_bpp", ptr, input_size, output_size, bytes_per_sample,
                   data, build_with_bpp(data, output_size, bytes_per_sample))

\* -------------------------------------------------------------- codestreams
NoFrame == Fr(FALSE, 0, 0, <<>>)

Garbage   == Img(FALSE, "Gray", <<>>)
Empty     == Img(TRUE, "Gray", <<>>)
GrayStill == Img(TRUE, "Gray", <<Fr(TRUE, 1, 1, <<64>>)>>)
GrayWide  == Img(TRUE, "Gray", <<Fr(TRUE, 2, 1, <<-26, 282>>)>>)
GrayAlpha == Img(TRUE, "Graya", <<Fr(TRUE, 1, 1, <<128, 256>>)>>)
RgbStill  == Img(TRUE, "Rgb", <<Fr(TRUE, 1, 1, <<64, 128, 256>>)>>)
RgbaStill == Img(TRUE, "Rgba", <<Fr(TRUE, 1, 1, <<0, 129, 282, 128>>)>>)
RgbaClear == Img(TRUE, "Rgba", <<Fr(TRUE, 1, 1, <<256, -26, 64, 0>>)>>)
Anim      == Img(TRUE, "Gray", <<Fr(TRUE, 1, 1, <<0>>), Fr(TRUE, 2, 1, <<256, 128>>)>>)
AnimLate  == Img(TRUE, "Gray", <<Fr(TRUE, 1, 2, <<64, 192>>), NoFrame>>)
AnimEarly == Img(TRUE, "Gray", <<NoFrame, Fr(TRUE, 2, 1, <<128, 128>>)>>)

Codestreams == {Garbage, Empty, GrayStill, GrayWide, GrayAlpha, RgbStill, RgbaStill,
                RgbaClear, Anim, AnimLate, AnimEarly}

SmallCodestreams == {GrayStill, GrayWide, GrayAlpha, AnimLate}

SampleWidths == {1, 2, 3, 4}

\* ------------------------------------------------------------------ the host
InputPtrs == {p \in Ptrs : host[p].kind = "input"}
HeldPtrs == {p \in Ptrs : host[p].kind # "none"}

\* Spec: a host that holds any number of buffers and releases each with the
\* size of its allocation (the precondition of free)
OutSizes == 0..MaxOut

Args == {<<0, 1>>} \cup {<<p, host[p].size>> : p \in InputPtrs}

Malloc == \E size \in 1..MaxSize : malloc(size)

Free == \E p \in HeldPtrs : free(p, alloc[p])

Width == \E a \in Args, o \in OutSizes, d \in SmallCodestreams : width(a[1], a[2], o, d)

Height == \E a \in Args, o \in OutSizes, d \in SmallCodestreams : height(a[1], a[2], o, d)

Frames == \E a \in Args, o \in OutSizes, d \in SmallCodestreams : frames(a[1], a[2], o, d)

Decode == \E a \in Args, o \in OutSizes, d \in SmallCodestreams : decode(a[1], a[2], o, d)

DecodeWithBpp ==
    \E a \in Args, o \in OutSizes, b \in SampleWidths, d \in SmallCodestreams :
        decode_with_bpp(a[1], a[2], o, b, d)

Next == Malloc \/ Free \/ Width \/ Height \/ Frames \/ Decode \/ DecodeWithBpp

Spec == Init /\ [][Next]_vars

\* SpecCall: a host that holds one input buffer, calls with every codestream,
\* releases the output of a call before the next one, with the size it asked for
CallOutSizes == {0} \cup {c * b : c \in 1..4, b \in {1, 2, 4}}

CallArgs == {<<0, 1>>} \cup UNION {{<<p, 0>>, <<p, host[p].size>>} : p \in InputPtrs}

NoOutput == \A p \in Ptrs : host[p].kind # "output"

CallMalloc == InputPtrs = {} /\ \E size \in 1..MaxSize : malloc(size)

CallFree == \E p \in HeldPtrs : free(p, host[p].size)

CallWidth ==
    NoOutput /\ \E a \in CallArgs, o \in {0, 1}, d \in Codestreams : width(a[1], a[2], o, d)

CallHeight ==
    NoOutput /\ \E a \in CallArgs, o \in {0, 1}, d \in Codestreams : height(a[1], a[2], o, d)

CallFrames ==
    NoOutput /\ \E a \in CallArgs, o \in {0, 1}, d \in Codestreams : frames(a[1], a[2], o, d)

CallDecode ==
    NoOutput /\ \E a \in CallArgs, o \in CallOutSizes, d \in Codestreams :
        decode(a[1], a[2], o, d)

CallDecodeWithBpp ==
    NoOutput /\ \E a \in CallArgs, o \in CallOutSizes, b \in SampleWidths, d \in Codestreams :
        decode_with_bpp(a[1], a[2], o, b, d)

NextCall ==
    \/ CallMalloc \/ CallFree \/ CallWidth \/ CallHeight \/ CallFrames
    \/ CallDecode \/ CallDecodeWithBpp

SpecCall == Init /\ [][NextCall]_vars

\* ================================================================== claims
\* what the last call was, read off the record of it
Called(ops) == last.op \in ops /\ ~last.aborted

Decodes == {"decode", "decode_with_bpp"}
Queries == {"width", "height", "frames"}

BadArgs == last.ptr = 0 \/ last.input_size = 0 \/ last.output_size = 0

Keyframes == last.data.keyframes

AllRender == \A k \in 1..Len(Keyframes) : Keyframes[k].ok

\* the returned buffer exists: decode / decode_with_bpp returned a pointer
Returned == Called(Decodes) /\ last.ret # 0

RECURSIVE SamplesFrom(_, _)
SamplesFrom(kfs, k) == IF k > Len(kfs) THEN <<>> ELSE kfs[k].buf \o SamplesFrom(kfs, k + 1)

\* the source samples of all keyframes, in keyframe order
Source == SamplesFrom(Keyframes, 1)

RECURSIVE PixelsFrom(_, _)
PixelsFrom(kfs, k) == IF k > Len(kfs) THEN 0 ELSE kfs[k].w * kfs[k].h + PixelsFrom(kfs, k + 1)

\* width x height summed over the keyframes
Pixels == PixelsFrom(Keyframes, 1)

\* the i-th sample of the returned buffer, as its bytes
OutSample(i) ==
    SubSeq(last.out, (i - 1) * last.bytes_per_sample + 1, i * last.bytes_per_sample)

OutSamples == Len(last.out) \div last.bytes_per_sample

\* full opacity in each sample width: 255, 65535, 1.0f32
Opaque(b) == CASE b = 1 -> <<255>> [] b = 2 -> <<255, 255>> [] b = 4 -> <<0, 0, 128, 63>>

\* C1 (as claimed): decode and decode_with_bpp return null when the pointer is
\* null, input_size is 0 or the codestream does not parse, and return a
\* buffer only when the encoded length equals output_size
C1_NullUnlessExactLength ==
    Called(Decodes) =>
        /\ (last.ptr = 0 \/ last.input_size = 0 \/ ~last.data.parse) => last.ret = 0
        /\ last.ret # 0 => Len(last.out) = last.output_size

\* C2: all-or-nothing over keyframes: when any keyframe fails to render,
\* decode and decode_with_bpp return null and frames a negative sentinel;
\* frames returns a positive value only when all N keyframes rendered, and
\* that value is N
C2_AllOrNothing ==
    (Called(Decodes \cup {"frames"}) /\ ~BadArgs /\ last.data.parse) =>
        /\ (Called(Decodes) /\ ~AllRender) => last.ret = 0
        /\ (Called({"frames"}) /\ ~AllRender) => last.ret < 0
        /\ (Called({"frames"}) /\ last.ret > 0) => AllRender
        /\ (Called({"frames"}) /\ AllRender /\ Len(Keyframes) > 0) =>
               last.ret = Len(Keyframes)

\* a later keyframe failed after an earlier one was counted, and frames
\* returned a sentinel
C2_Witness ==
    /\ Called({"frames"}) /\ ~BadArgs /\ last.data.parse
    /\ Len(Keyframes) = 2 /\ Keyframes[1].ok /\ ~Keyframes[2].ok
    /\ last.ret = -3

C4_AlphaPassThrough ==
    (Returned /\ last.data.fmt = "Rgba") =>
        \A j \in 1..Pixels :
            OutSample(4 * j) = sample_bytes(Source[4 * j], last.bytes_per_sample)

\* C4 (amended): an Rgba image is written as 4 samples per pixel, the 3
\* colour samples encoded and the 4th at full opacity whatever the source
\* alpha is
C4_AlphaOpaque ==
    (Returned /\ last.data.fmt = "Rgba") =>
        /\ Len(last.out) = 4 * Pixels * last.bytes_per_sample
        /\ \A i \in 1..(4 * Pixels) :
               OutSample(i) = IF i % 4 = 0 THEN Opaque(last.bytes_per_sample)
                              ELSE sample_bytes(Source[i], last.bytes_per_sample)

\* an Rgba image whose source alpha is not full opacity was returned in
\* 2-byte samples
C4_Witness ==
    /\ Returned /\ last.data.fmt = "Rgba" /\ last.bytes_per_sample = 2
    /\ Pixels = 1 /\ Source[4] # 256

\* the sample positions that carry a source sample (not the Rgba alpha)
Coloured(i) == last.data.fmt = "Rgba" => i % 4 # 0

Abs(x) == IF x < 0 THEN -x ELSE x

\* C5 (as claimed): every 1-byte sample b is the clamped sample s times 255
\* rounded to the nearest integer, |255 * s - b| <= 1/2
C5_RoundToNearest ==
    (Returned /\ last.bytes_per_sample = 1) =>
        \A i \in 1..OutSamples :
            Coloured(i) =>
                2 * Abs(255 * Clamp(Source[i], 0, 256) - 256 * last.out[i]) <= 256

\* an f32 given by its little-endian bytes lies in [0.0, 1.0]
InUnit(b) == b[4] < 63 \/ (b[4] = 63 /\ b[3] < 128) \/ b = <<0, 0, 128, 63>>

\* C6 (as claimed): every sample is clamped to [0, 1] in every encoding: the
\* 4-byte encoding emits only values in [0.0, 1.0], the 1- and 2-byte
\* encodings 0 or the maximum code for a sample outside [0, 1]
C6_ClampedEverywhere ==
    Returned =>
        \A i \in 1..OutSamples :
            Coloured(i) =>
                /\ last.bytes_per_sample = 4 => InUnit(OutSample(i))
                /\ (last.bytes_per_sample # 4 /\ Source[i] < 0) =>
                       OutSample(i) \in {<<0>>, <<0, 0>>}
                /\ (last.bytes_per_sample # 4 /\ Source[i] > 256) =>
                       OutSample(i) = Opaque(last.bytes_per_sample)

\* the keyframes the last query rendered, among them a failed one
RenderFailed == \E k \in 1..last.rendered : ~Keyframes[k].ok

\* C7: width, height and frames return -1 exactly on a null pointer or a zero
\* size, else -2 exactly when the codestream does not parse, else -3 exactly
\* when a keyframe they render fails, else -4 exactly when there is no
\* keyframe; no other negative value, and no failure as a value >= 0
C7_SentinelCodes ==
    Called(Queries) =>
        /\ last.ret = -1 <=> BadArgs
        /\ ~BadArgs => (last.ret = -2 <=> ~last.data.parse)
        /\ (~BadArgs /\ last.data.parse) => (last.ret = -3 <=> RenderFailed)
        /\ (~BadArgs /\ last.data.parse /\ ~RenderFailed) =>
               (last.ret = -4 <=> Len(Keyframes) = 0)
        /\ last.ret < 0 => last.ret \in {-1, -2, -3, -4}
        /\ (BadArgs \/ ~last.data.parse \/ RenderFailed \/ Len(Keyframes) = 0) =>
               last.ret < 0

\* a query with valid arguments on a codestream that does not parse
C7_Witness ==
    /\ Called(Queries) /\ ~BadArgs /\ ~last.data.parse /\ last.ret = -2

\* the index of the first keyframe that renders
FirstOk == CHOOSE k \in 1..Len(Keyframes) :
               Keyframes[k].ok /\ \A j \in 1..(k - 1) : ~Keyframes[j].ok

Dim(frame) == IF last.op = "width" THEN frame.w ELSE frame.h

\* C8 (as claimed): width and height return the geometry of the first
\* keyframe, in ascending order, whose render succeeds, and render no
\* keyframe after it
C8_FirstRenderable ==
    (Called({"width", "height"}) /\ ~BadArgs /\ last.data.parse
        /\ \E k \in 1..Len(Keyframes) : Keyframes[k].ok) =>
        /\ last.ret = Dim(Keyframes[FirstOk])
        /\ last.rendered <= FirstOk

\* C8 (amended): width and height render keyframe 0 and no other: they
\* return its geometry when it renders and -3 when it does not, whatever the
\* later keyframes are
C8_FirstKeyframeOnly ==
    (Called({"width", "height"}) /\ ~BadArgs /\ last.data.parse
        /\ Len(Keyframes) > 0) =>
        /\ last.rendered = 1
        /\ last.ret = IF Keyframes[1].ok THEN Dim(Keyframes[1]) ELSE -3

\* width returned -3 on a codestream whose keyframe 0 fails and whose
\* keyframe 1 renders
C8_Witness ==
    /\ Called({"width"}) /\ ~BadArgs /\ last.data.parse /\ Len(Keyframes) = 2
    /\ ~Keyframes[1].ok /\ Keyframes[2].ok /\ last.ret = -3

Live == {p \in Ptrs : alloc[p] # 0}

Sentinel(call) ==
    \/ call.op \in Queries /\ ~call.aborted /\ call.ret < 0
    \/ call.op \in Decodes /\ ~call.aborted /\ call.ret = 0

C10_ExactAllocation ==
    \A p \in Ptrs : host[p].kind = "output" => alloc[p] = host[p].size

====
